---- MODULE Spec2Model ----
(***************************************************************************)
(* AudioQueueManager and AudioTask of text2speech/audio_queue.py as a      *)
(* state machine of interleaved threads: caller threads that run the       *)
(* public methods (start, shutdown, enqueue, clear_queue), the worker      *)
(* threads that start() creates, and the wall clock that time.time()       *)
(* reads.  A step is one access to shared state: one operation on the      *)
(* queue.PriorityQueue (atomic under the queue's own mutex), one `with     *)
(* lock:` block, one read or write of the shutdown event or of the worker  *)
(* handle.                                                                 *)
(***************************************************************************)
EXTENDS Integers, Sequences, FiniteSets, TLC

\* ---------------------------------------------------------------- bounds

\* max_queue_size given to the constructor (the code's default is 50).
MaxQueueSize == 2

\* The wall clock runs over 0..MaxTime, in seconds.
MaxTime == 1

\* Public method calls made in one run, over all caller threads.
MaxOps == 3

\* max_queue_size of the manager with the smallest queue.
OneSlot == 1

\* Method calls in a run of the lifecycle scenario.
LifeOps == 4

\* Method calls in a run of the clear_queue scenario.
ClearOps == 4

\* Distinct texts enqueued in the ledger scenario.
LedgerTexts == 101

\* enqueue calls made in one run by the concurrent producers.
ProducerOps == 3

\* The timestamps of the tasks compared run over 0..OrderMaxTime.
OrderMaxTime == 2

\* Method calls in a run of the priority scenario.
PriorityOps == 3

\* speak calls made in one run of the speak scenario.
SpeakOps == 3

\* Enqueue calls in a run of the playback scenario.
PlayOps == 3

\* Method calls in a run of the statistics scenario.
StatsOps == 3

\* Worker threads that start() may create in one run.
MaxThreads == 2

\* Method calls made in one run of two racing callers.
RaceOps == 4

\* Method calls made in one run of the first-in-first-out scenario, and the
\* max_queue_size of its manager.
FifoOps == 5

FifoQueueSize == 4

\* ------------------------------------------------------------- constants

\* duplicate_timeout given to the constructor, in seconds.
DuplicateTimeout == 1

\* The priority of the sentinel that shutdown() pushes.
SentinelPriority == -1000

\* _track_message prunes the ledger once it holds more than this many texts.
RecentLimit == 100

\* The value a caller writes into the mapping get_stats() returned.
MutatedValue == 999

\* --------------------------------------------------------------- inputs

Callers == {1, 2}

Threads == 1..MaxThreads

\* A text is a sequence of characters.
Texts == {<<"a">>, <<"b">>, <<>>, <<" ", " ">>}

Priorities == {0, 5}

\* the texts of the first-in-first-out scenario, in the order of their calls
FifoTexts == <<(<<"1">>), (<<"2">>), (<<"3">>), (<<"4">>), (<<"1">>)>>

\* ------------------------------------------------------------ AudioTask

\* str.strip() at both ends.
RECURSIVE LStrip(_)
LStrip(s) ==
    IF s # <<>> /\ Head(s) = " " THEN LStrip(Tail(s)) ELSE s

RECURSIVE RStrip(_)
RStrip(s) ==
    IF s # <<>> /\ s[Len(s)] = " " THEN RStrip(SubSeq(s, 1, Len(s) - 1)) ELSE s

Strip(s) == RStrip(LStrip(s))

\* `not text`, without the strip
IsEmpty(text) == text = <<>>

\* `not text or not text.strip()`
IsBlank(text) == text = <<>> \/ Strip(text) = <<>>

\* AudioTask(text, priority) created at clock reading ts; id is the identity
\* of the Python object.
AudioTask(text, priority, ts, id) ==
    [text |-> text, priority |-> priority, timestamp |-> ts, id |-> id]

NoTask == [text |-> <<>>, priority |-> 0, timestamp |-> 0, id |-> 0]

\* __lt__ comparing the timestamps alone
TaskLtByTimestamp(self, other) == self.timestamp < other.timestamp

\* __lt__ without the inversion of the priority
TaskLtAscending(self, other) ==
    IF self.priority # other.priority
    THEN self.priority < other.priority
    ELSE self.timestamp < other.timestamp

\* __lt__ with the newer message first
TaskLtNewestFirst(self, other) ==
    IF self.priority # other.priority
    THEN self.priority > other.priority
    ELSE self.timestamp > other.timestamp

\* __lt__ with `<=` on the timestamps
TaskLtOrEqual(self, other) ==
    IF self.priority # other.priority
    THEN self.priority > other.priority
    ELSE self.timestamp <= other.timestamp

\* AudioTask.__lt__
TaskLt(self, other) ==
    IF self.priority # other.priority
    THEN self.priority > other.priority
    ELSE self.timestamp < other.timestamp

\* ------------------------------------------- queue.PriorityQueue (heapq)

\* The queue's list, 0-based as in heapq: heap position i is h[i + 1].
At(h, i) == h[i + 1]

Set(h, i, x) == [h EXCEPT ![i + 1] = x]

\* heapq._siftdown(heap, startpos, pos) with newitem held aside.
RECURSIVE SiftDownLoop(_, _, _, _)
SiftDownLoop(h, startpos, pos, newitem) ==
    IF pos > startpos
    THEN LET parentpos == (pos - 1) \div 2
             parent == At(h, parentpos)
         IN  IF TaskLt(newitem, parent)
             THEN SiftDownLoop(Set(h, pos, parent), startpos, parentpos, newitem)
             ELSE Set(h, pos, newitem)
    ELSE Set(h, pos, newitem)

SiftDown(h, startpos, pos) == SiftDownLoop(h, startpos, pos, At(h, pos))

\* heapq._siftup(heap, pos): bubble the smaller child up to a leaf, then
\* sift the new item down from there.
RECURSIVE SiftUpLoop(_, _, _, _)
SiftUpLoop(h, startpos, pos, newitem) ==
    LET endpos == Len(h)
        childpos == 2 * pos + 1
        rightpos == childpos + 1
        c == IF rightpos < endpos /\ ~TaskLt(At(h, childpos), At(h, rightpos))
             THEN rightpos ELSE childpos
    IN  IF childpos < endpos
        THEN SiftUpLoop(Set(h, pos, At(h, c)), startpos, c, newitem)
        ELSE SiftDown(Set(h, pos, newitem), startpos, pos)

SiftUp(h, pos) == SiftUpLoop(h, pos, pos, At(h, pos))

\* heapq.heappush
HeapPush(h, item) == SiftDown(Append(h, item), 0, Len(h))

\* heapq.heappop: the item returned, and the heap left.
HeapPopItem(h) == IF Len(h) > 1 THEN At(h, 0) ELSE h[Len(h)]

HeapPopRest(h) ==
    LET lastelt == h[Len(h)]
        rest == SubSeq(h, 1, Len(h) - 1)
    IN  IF rest # <<>> THEN SiftUp(Set(rest, 0, lastelt), 0) ELSE rest

\* ---------------------------------------------------------------- state

VARIABLES
    max_queue_size,  \* self._max_queue_size, the queue's maxsize
    queue,           \* self._queue: the PriorityQueue's heap list
    recent,          \* self._recent_messages: text -> timestamp
    stats,           \* self._stats
    shutdown_event,  \* self._shutdown_event.is_set()
    worker_thread,   \* self._worker_thread: 0 for None, else a thread
    tstate,          \* per thread: "none", "created", "alive", "dead"
    wpc,             \* per thread: where its _worker_loop stands
    wtask,           \* per thread: the task its loop holds
    cpc,             \* per caller: where its current method call stands
    cl,              \* per caller: the locals of its call and its last result
    now,             \* the reading of time.time()
    budget,          \* method calls the callers may still begin
    ntasks,          \* AudioTask objects created so far
    accepted,        \* history: the tasks enqueue() inserted, in order, each
                     \* with is_running() at its insertion
    calls,           \* history: the tasks handed to the tts callable, in order
    ncleared,        \* history: entries removed by clear_queue()
    signalled_calls, \* history: invocations of the tts callable begun with
                     \* the shutdown signal set, since start() last cleared it
    held,            \* per thread: the locks of the manager it holds, in
                     \* the order it took them
    todo,            \* per thread: the `with` blocks and queue operations
                     \* its call has yet to go through, each the locks it
                     \* takes, outermost first
    compared,        \* three AudioTask objects held outside the manager
    lt               \* lt[i][j]: the result of compared[i] < compared[j],
                     \* <<>> while the comparisons were not made

vars == <<max_queue_size, queue, recent, stats, shutdown_event, worker_thread,
          tstate, wpc, wtask, cpc, cl, now, budget, ntasks, accepted, calls,
          ncleared, signalled_calls, held, todo, compared, lt>>

\* the threads of a process that uses the manager: callers and workers
LockThreads ==
    {<<"caller", c>> : c \in Callers} \cup {<<"worker", t>> : t \in Threads}

\* What no step of a method leaves changed: a step that takes a lock of the
\* manager releases it before it ends.
fixed == <<max_queue_size, compared, lt, held, todo>>

\* the threads
workers == <<tstate, wpc, wtask>>

\* the histories
hist == <<accepted, calls, ncleared, signalled_calls>>

\* self._stats as __init__ makes it
NoStats ==
    [messages_queued |-> 0, messages_played |-> 0,
     messages_skipped_duplicate |-> 0, messages_skipped_full |-> 0,
     errors |-> 0]

\* A mapping a caller holds: a dict object of its own with the entries
\* `value`, or (shared) the manager's own self._stats object.
NoSnapshot == [shared |-> FALSE, value |-> NoStats]

\* Locals of a caller: the arguments and the task of its enqueue call and the
\* result of its last completed call.  After an accepted enqueue the caller
\* keeps the text and the ledger time written for it (tracked); during an
\* enqueue call, prev is the text so kept.  After get_stats() the caller
\* holds the mapping it returned (snap).  seen is a counter value read for a
\* later write, -1 when none was read.
NoLocals ==
    [text |-> <<>>, priority |-> 0, task |-> NoTask, ret |-> "none",
     tracked |-> 0, prev |-> <<>>, snap |-> NoSnapshot, seen |-> -1]

\* The manager after __init__ and a start() that has returned, as the
\* owner of the manager makes it before any producer runs: the worker
\* thread is alive, at the head of its loop.
StartedWith(size, ops) ==
    /\ compared = <<>>
    /\ lt = <<>>
    /\ held = [th \in LockThreads |-> <<>>]
    /\ todo = [th \in LockThreads |-> <<>>]
    /\ max_queue_size = size
    /\ budget = ops
    /\ queue = <<>>
    /\ recent = [m \in {} |-> 0]
    /\ stats = NoStats
    /\ shutdown_event = FALSE
    /\ worker_thread = 1
    /\ tstate = [t \in Threads |-> IF t = 1 THEN "alive" ELSE "none"]
    /\ wpc = [t \in Threads |-> "loop"]
    /\ wtask = [t \in Threads |-> NoTask]
    /\ cpc = [c \in Callers |-> "idle"]
    /\ cl = [c \in Callers |-> NoLocals]
    /\ now = 0
    /\ ntasks = 0
    /\ accepted = <<>>
    /\ calls = <<>>
    /\ ncleared = 0
    /\ signalled_calls = 0

\* AudioQueueManager.__init__ with max_queue_size = size, in a run of at
\* most ops method calls
InitWith(size, ops) ==
    /\ compared = <<>>
    /\ lt = <<>>
    /\ held = [th \in LockThreads |-> <<>>]
    /\ todo = [th \in LockThreads |-> <<>>]
    /\ max_queue_size = size
    /\ budget = ops
    /\ queue = <<>>
    /\ recent = [m \in {} |-> 0]
    /\ stats = NoStats
    /\ shutdown_event = FALSE
    /\ worker_thread = 0
    /\ tstate = [t \in Threads |-> "none"]
    /\ wpc = [t \in Threads |-> "loop"]
    /\ wtask = [t \in Threads |-> NoTask]
    /\ cpc = [c \in Callers |-> "idle"]
    /\ cl = [c \in Callers |-> NoLocals]
    /\ now = 0
    /\ ntasks = 0
    /\ accepted = <<>>
    /\ calls = <<>>
    /\ ncleared = 0
    /\ signalled_calls = 0

\* A caller begins a method call.
Begin(c) ==
    /\ cpc[c] = "idle"
    /\ budget > 0
    /\ budget' = budget - 1

\* A call returns: the caller is idle again and holds the result.
Return(c, result) ==
    /\ cpc' = [cpc EXCEPT ![c] = "idle"]
    /\ cl' = [cl EXCEPT ![c] = [NoLocals EXCEPT !.ret = result]]

Goto(c, label) == cpc' = [cpc EXCEPT ![c] = label]

Bump(counter) == [stats EXCEPT ![counter] = @ + 1]

\* threading.Thread.is_alive() of thread t
IsAlive(t) == tstate[t] = "alive"

\* is_running(), and the test start() makes first
IsRunning == worker_thread # 0 /\ IsAlive(worker_thread)

\* ----------------------------------------------------------------- locks

\* _play_audio with its `with self._stats_lock:` opened before the callable
StatsLockedAcrossCall == {"call"}

\* The positions of _worker_loop at which the thread holds self._stats_lock
\* from one step to the next: none.  _play_audio takes the lock after the
\* callable has returned or raised, for the increment alone, and the loop
\* takes no lock of the manager anywhere else: self._recent_lock is taken
\* by enqueue only, and the queue's mutex is released inside get() while it
\* waits.
StatsLockedAt == {}

\* a worker thread holds self._stats_lock
StatsLockHeld ==
    \E t \in Threads : IsAlive(t) /\ wpc[t] \in StatsLockedAt

\* --------------------------------------------------------------- enqueue

\* _is_duplicate counting the age of duplicate_timeout itself
IsDuplicateUpToTimeout(text) ==
    /\ text \in DOMAIN recent
    /\ now - recent[text] <= DuplicateTimeout

\* _is_duplicate with the comparison turned round
IsDuplicateAfterTimeout(text) ==
    /\ text \in DOMAIN recent
    /\ now - recent[text] >= DuplicateTimeout

\* _is_duplicate(text), at the clock reading `now`
IsDuplicate(text) ==
    /\ text \in DOMAIN recent
    /\ now - recent[text] < DuplicateTimeout

\* the Full test one entry late
QueueOverfull(q) == Len(q) > max_queue_size

\* PriorityQueue._qsize() >= maxsize, the test put_nowait raises Full on
QueueFull(q) == Len(q) >= max_queue_size

\* _track_message(text): the ledger after it
TrackMessage(text) ==
    LET added == [m \in DOMAIN recent \cup {text} |->
                      IF m = text THEN now ELSE recent[m]]
        cutoff_time == now - DuplicateTimeout
        kept == {m \in DOMAIN added : added[m] > cutoff_time}
    IN  IF Cardinality(DOMAIN added) > RecentLimit
        THEN [m \in kept |-> added[m]]
        ELSE added

\* enqueue(text, priority) is called: the blank test, then _is_duplicate.
EnqueueCall(c, text, priority) ==
    /\ Begin(c)
    /\ IF IsBlank(text)
       THEN /\ cpc' = cpc
            /\ cl' = [cl EXCEPT ![c] = [NoLocals EXCEPT !.ret = "False"]]
       ELSE /\ cl' = [cl EXCEPT ![c].text = text, ![c].priority = priority,
                                ![c].ret = "none", ![c].prev = cl[c].text]
            /\ IF IsDuplicate(text)
               THEN Goto(c, "skip_dup")
               ELSE Goto(c, "mk_task")
    /\ UNCHANGED <<queue, recent, stats, shutdown_event, worker_thread, now,
                   ntasks, fixed, workers, hist>>

\* the duplicate branch: count it and return False
SkipDuplicate(c) ==
    /\ cpc[c] = "skip_dup"
    /\ ~StatsLockHeld
    /\ stats' = Bump("messages_skipped_duplicate")
    /\ Return(c, "False")
    /\ UNCHANGED <<queue, recent, shutdown_event, worker_thread, now, budget,
                   ntasks, fixed, workers, hist>>

\* task = AudioTask(text=text, priority=priority)
MakeTask(c) ==
    /\ cpc[c] = "mk_task"
    /\ ntasks' = ntasks + 1
    /\ cl' = [cl EXCEPT ![c].task =
                  AudioTask(cl[c].text, cl[c].priority, now, ntasks + 1)]
    /\ Goto(c, "put")
    /\ UNCHANGED <<queue, recent, stats, shutdown_event, worker_thread, now,
                   budget, fixed, workers, hist>>

\* self._queue.put_nowait(task)
PutNowait(c) ==
    /\ cpc[c] = "put"
    /\ IF QueueFull(queue)
       THEN /\ Goto(c, "skip_full")
            /\ UNCHANGED <<queue, accepted>>
       ELSE /\ queue' = HeapPush(queue, cl[c].task)
            /\ accepted' = Append(accepted, [task |-> cl[c].task,
                                              running |-> IsRunning])
            /\ Goto(c, "count_queued")
    /\ UNCHANGED <<recent, stats, shutdown_event, worker_thread, cl, now,
                   budget, ntasks, fixed, workers, calls, ncleared,
                   signalled_calls>>

\* the Full branch counting the message as queued
SkipFullCountsQueued(c) ==
    /\ cpc[c] = "skip_full"
    /\ stats' = Bump("messages_queued")
    /\ Return(c, "False")
    /\ UNCHANGED <<queue, recent, shutdown_event, worker_thread, now, budget,
                   ntasks, fixed, workers, hist>>

\* the Full branch writing the text into the ledger all the same
SkipFullTracks(c) ==
    /\ cpc[c] = "skip_full"
    /\ ~StatsLockHeld
    /\ stats' = Bump("messages_skipped_full")
    /\ recent' = TrackMessage(cl[c].text)
    /\ Return(c, "False")
    /\ UNCHANGED <<queue, shutdown_event, worker_thread, now, budget,
                   ntasks, fixed, workers, hist>>

\* the Full branch: count it and return False
SkipFull(c) ==
    /\ cpc[c] = "skip_full"
    /\ ~StatsLockHeld
    /\ stats' = Bump("messages_skipped_full")
    /\ Return(c, "False")
    /\ UNCHANGED <<queue, recent, shutdown_event, worker_thread, now, budget,
                   ntasks, fixed, workers, hist>>

\* messages_queued += 1 outside the lock: the read, and then the write
CountQueuedUnlocked(c) ==
    /\ cpc[c] = "count_queued"
    /\ IF cl[c].seen = -1
       THEN /\ cl' = [cl EXCEPT ![c].seen = stats.messages_queued]
            /\ UNCHANGED <<stats, cpc>>
       ELSE /\ stats' = [stats EXCEPT !.messages_queued = cl[c].seen + 1]
            /\ cl' = [cl EXCEPT ![c].seen = -1]
            /\ Goto(c, "track")
    /\ UNCHANGED <<queue, recent, shutdown_event, worker_thread, now,
                   budget, ntasks, fixed, workers, hist>>

\* with self._stats_lock: messages_queued += 1
CountQueued(c) ==
    /\ cpc[c] = "count_queued"
    /\ ~StatsLockHeld
    /\ stats' = Bump("messages_queued")
    /\ Goto(c, "track")
    /\ UNCHANGED <<queue, recent, shutdown_event, worker_thread, cl, now,
                   budget, ntasks, fixed, workers, hist>>

\* self._track_message(text); return True
Track(c) ==
    /\ cpc[c] = "track"
    /\ recent' = TrackMessage(cl[c].text)
    /\ cpc' = [cpc EXCEPT ![c] = "idle"]
    /\ cl' = [cl EXCEPT ![c] = [NoLocals EXCEPT !.ret = "True",
                                           !.text = cl[c].text, !.tracked = now]]
    /\ UNCHANGED <<queue, stats, shutdown_event, worker_thread, now, budget,
                   ntasks, fixed, workers, hist>>

\* ----------------------------------------------------------------- start

Created == {t \in Threads : tstate[t] # "none"}

Starting == {c \in Callers : cpc[c] \in {"start_clear", "start_new"}}

\* start() without the test for a running worker
StartCallUnchecked(c) ==
    /\ Begin(c)
    /\ Cardinality(Created) + Cardinality(Starting) < MaxThreads
    /\ Goto(c, "start_clear")
    /\ cl' = [cl EXCEPT ![c] = NoLocals]
    /\ UNCHANGED <<queue, recent, stats, shutdown_event, worker_thread, now,
                   ntasks, fixed, workers, hist>>

\* start() is called: return if the worker runs
StartCall(c) ==
    /\ Begin(c)
    /\ IsRunning \/ Cardinality(Created) + Cardinality(Starting) < MaxThreads
    /\ IF IsRunning
       THEN /\ cpc' = cpc
            /\ cl' = [cl EXCEPT ![c] = [NoLocals EXCEPT !.ret = "None"]]
       ELSE /\ Goto(c, "start_clear")
            /\ cl' = [cl EXCEPT ![c] = NoLocals]
    /\ UNCHANGED <<queue, recent, stats, shutdown_event, worker_thread, now,
                   ntasks, fixed, workers, hist>>

\* a start() that begins the statistics anew
StartClearResetsStats(c) ==
    /\ cpc[c] = "start_clear"
    /\ shutdown_event' = FALSE
    /\ signalled_calls' = 0
    /\ stats' = NoStats
    /\ Goto(c, "start_new")
    /\ UNCHANGED <<queue, recent, worker_thread, cl, now, budget,
                   ntasks, fixed, workers, accepted, calls, ncleared>>

\* self._shutdown_event.clear()
StartClear(c) ==
    /\ cpc[c] = "start_clear"
    /\ shutdown_event' = FALSE
    /\ signalled_calls' = 0
    /\ Goto(c, "start_new")
    /\ UNCHANGED <<queue, recent, stats, worker_thread, cl, now, budget,
                   ntasks, fixed, workers, accepted, calls, ncleared>>

\* self._worker_thread = threading.Thread(target=self._worker_loop, ...)
StartNew(c) ==
    /\ cpc[c] = "start_new"
    /\ LET t == Cardinality(Created) + 1
       IN  /\ worker_thread' = t
           /\ tstate' = [tstate EXCEPT ![t] = "created"]
    /\ Goto(c, "start_run")
    /\ UNCHANGED <<queue, recent, stats, shutdown_event, wpc, wtask, cl, now,
                   budget, ntasks, fixed, hist>>

\* self._worker_thread.start(): a thread can be started only once
StartRun(c) ==
    /\ cpc[c] = "start_run"
    /\ IF tstate[worker_thread] = "created"
       THEN /\ tstate' = [tstate EXCEPT ![worker_thread] = "alive"]
            /\ Return(c, "None")
       ELSE /\ tstate' = tstate
            /\ Return(c, "RuntimeError")
    /\ UNCHANGED <<queue, recent, stats, shutdown_event, worker_thread, wpc,
                   wtask, now, budget, ntasks, fixed, hist>>

\* ---------------------------------------------------------- _worker_loop

\* while not self._shutdown_event.is_set(): ... ; the thread ends after it
WorkerLoop(t) ==
    /\ tstate[t] = "alive"
    /\ wpc[t] = "loop"
    /\ IF shutdown_event
       THEN /\ tstate' = [tstate EXCEPT ![t] = "dead"]
            /\ wpc' = wpc
       ELSE /\ wpc' = [wpc EXCEPT ![t] = "get"]
            /\ tstate' = tstate
    /\ UNCHANGED <<queue, recent, stats, shutdown_event, worker_thread, wtask,
                   cpc, cl, now, budget, ntasks, fixed, hist>>

\* a get that reads the first entry and leaves it in the queue
WorkerGetPeeks(t) ==
    /\ tstate[t] = "alive"
    /\ wpc[t] = "get"
    /\ queue # <<>>
    /\ wtask' = [wtask EXCEPT ![t] = HeapPopItem(queue)]
    /\ wpc' = [wpc EXCEPT ![t] = "check"]
    /\ UNCHANGED <<queue, recent, stats, shutdown_event, worker_thread, tstate,
                   cpc, cl, now, budget, ntasks, fixed, hist>>

\* task = self._queue.get(timeout=1.0), an entry being there
WorkerGet(t) ==
    /\ tstate[t] = "alive"
    /\ wpc[t] = "get"
    /\ queue # <<>>
    /\ wtask' = [wtask EXCEPT ![t] = HeapPopItem(queue)]
    /\ queue' = HeapPopRest(queue)
    /\ wpc' = [wpc EXCEPT ![t] = "check"]
    /\ UNCHANGED <<recent, stats, shutdown_event, worker_thread, tstate, cpc,
                   cl, now, budget, ntasks, fixed, hist>>

\* a get without timeout: on an empty queue the thread waits on
WorkerGetWaits(t) ==
    /\ tstate[t] = "alive"
    /\ wpc[t] = "get"
    /\ queue = <<>>
    /\ FALSE
    /\ UNCHANGED vars

\* the get times out on an empty queue: queue.Empty, continue
WorkerGetTimeout(t) ==
    /\ tstate[t] = "alive"
    /\ wpc[t] = "get"
    /\ queue = <<>>
    /\ wpc' = [wpc EXCEPT ![t] = "loop"]
    /\ UNCHANGED <<queue, recent, stats, shutdown_event, worker_thread, tstate,
                   wtask, cpc, cl, now, budget, ntasks, fixed, hist>>

\* the test after the get looking for the sentinel alone
WorkerCheckSentinelOnly(t) ==
    /\ tstate[t] = "alive"
    /\ wpc[t] = "check"
    /\ IF wtask[t].priority = SentinelPriority
       THEN /\ tstate' = [tstate EXCEPT ![t] = "dead"]
            /\ wpc' = [wpc EXCEPT ![t] = "loop"]
            /\ wtask' = [wtask EXCEPT ![t] = NoTask]
       ELSE /\ wpc' = [wpc EXCEPT ![t] = "play"]
            /\ UNCHANGED <<tstate, wtask>>
    /\ UNCHANGED <<queue, recent, stats, shutdown_event, worker_thread, cpc,
                   cl, now, budget, ntasks, fixed, hist>>

\* the test after the get looking at the signal alone
WorkerCheckEventOnly(t) ==
    /\ tstate[t] = "alive"
    /\ wpc[t] = "check"
    /\ IF shutdown_event
       THEN /\ tstate' = [tstate EXCEPT ![t] = "dead"]
            /\ wpc' = [wpc EXCEPT ![t] = "loop"]
            /\ wtask' = [wtask EXCEPT ![t] = NoTask]
       ELSE /\ wpc' = [wpc EXCEPT ![t] = "play"]
            /\ UNCHANGED <<tstate, wtask>>
    /\ UNCHANGED <<queue, recent, stats, shutdown_event, worker_thread, cpc,
                   cl, now, budget, ntasks, fixed, hist>>

\* if self._shutdown_event.is_set() or task.priority == -1000: break
WorkerCheck(t) ==
    /\ tstate[t] = "alive"
    /\ wpc[t] = "check"
    /\ IF shutdown_event \/ wtask[t].priority = SentinelPriority
       THEN /\ tstate' = [tstate EXCEPT ![t] = "dead"]
            /\ wpc' = [wpc EXCEPT ![t] = "loop"]
            /\ wtask' = [wtask EXCEPT ![t] = NoTask]
       ELSE /\ wpc' = [wpc EXCEPT ![t] = "play"]
            /\ UNCHANGED <<tstate, wtask>>
    /\ UNCHANGED <<queue, recent, stats, shutdown_event, worker_thread, cpc,
                   cl, now, budget, ntasks, fixed, hist>>

\* _play_audio(task.text): self._tts_callable(text) is entered
WorkerPlay(t) ==
    /\ tstate[t] = "alive"
    /\ wpc[t] = "play"
    /\ calls' = Append(calls, wtask[t])
    /\ signalled_calls' = IF shutdown_event THEN signalled_calls + 1
                                            ELSE signalled_calls
    /\ wpc' = [wpc EXCEPT ![t] = "call"]
    /\ UNCHANGED <<queue, recent, stats, shutdown_event, worker_thread, tstate,
                   wtask, cpc, cl, now, budget, ntasks, fixed, accepted,
                   ncleared>>

\* the callable returns: messages_played += 1, then round the loop
CallableReturns(t) ==
    /\ tstate[t] = "alive"
    /\ wpc[t] = "call"
    /\ stats' = Bump("messages_played")
    /\ wpc' = [wpc EXCEPT ![t] = "loop"]
    /\ wtask' = [wtask EXCEPT ![t] = NoTask]
    /\ UNCHANGED <<queue, recent, shutdown_event, worker_thread, tstate, cpc,
                   cl, now, budget, ntasks, fixed, hist>>

\* the callable raises and the exception ends the thread, uncounted
CallableRaisesEndsWorker(t) ==
    /\ tstate[t] = "alive"
    /\ wpc[t] = "call"
    /\ tstate' = [tstate EXCEPT ![t] = "dead"]
    /\ wpc' = [wpc EXCEPT ![t] = "loop"]
    /\ wtask' = [wtask EXCEPT ![t] = NoTask]
    /\ UNCHANGED <<queue, recent, stats, shutdown_event, worker_thread, cpc,
                   cl, now, budget, ntasks, fixed, hist>>

\* the callable raises and the playback is counted as played as well
CallableRaisesCountsBoth(t) ==
    /\ tstate[t] = "alive"
    /\ wpc[t] = "call"
    /\ stats' = [stats EXCEPT !.errors = @ + 1, !.messages_played = @ + 1]
    /\ wpc' = [wpc EXCEPT ![t] = "loop"]
    /\ wtask' = [wtask EXCEPT ![t] = NoTask]
    /\ UNCHANGED <<queue, recent, shutdown_event, worker_thread, tstate, cpc,
                   cl, now, budget, ntasks, fixed, hist>>

\* the callable raises: errors += 1, then round the loop
CallableRaises(t) ==
    /\ tstate[t] = "alive"
    /\ wpc[t] = "call"
    /\ stats' = Bump("errors")
    /\ wpc' = [wpc EXCEPT ![t] = "loop"]
    /\ wtask' = [wtask EXCEPT ![t] = NoTask]
    /\ UNCHANGED <<queue, recent, shutdown_event, worker_thread, tstate, cpc,
                   cl, now, budget, ntasks, fixed, hist>>

\* -------------------------------------------------------------- shutdown

\* shutdown() is called: return if no worker was ever created
ShutdownCall(c) ==
    /\ Begin(c)
    /\ IF worker_thread = 0
       THEN /\ cpc' = cpc
            /\ cl' = [cl EXCEPT ![c] = [NoLocals EXCEPT !.ret = "None"]]
       ELSE /\ Goto(c, "sd_set")
            /\ cl' = [cl EXCEPT ![c] = NoLocals]
    /\ UNCHANGED <<queue, recent, stats, shutdown_event, worker_thread, now,
                   ntasks, fixed, workers, hist>>

\* self._shutdown_event.set()
ShutdownSet(c) ==
    /\ cpc[c] = "sd_set"
    /\ shutdown_event' = TRUE
    /\ Goto(c, "sd_put")
    /\ UNCHANGED <<queue, recent, stats, worker_thread, cl, now, budget,
                   ntasks, fixed, workers, hist>>

\* the sentinel's put_nowait without the `except queue.Full`
ShutdownPutRaises(c) ==
    /\ cpc[c] = "sd_put"
    /\ ntasks' = ntasks + 1
    /\ IF QueueFull(queue)
       THEN /\ queue' = queue
            /\ Return(c, "Full")
       ELSE /\ queue' = HeapPush(queue,
                            AudioTask(<<>>, SentinelPriority, now, ntasks + 1))
            /\ Goto(c, "sd_join")
            /\ cl' = cl
    /\ UNCHANGED <<recent, stats, shutdown_event, worker_thread, now,
                   budget, fixed, workers, hist>>

\* self._queue.put_nowait(AudioTask("", priority=-1000)), Full ignored
ShutdownPut(c) ==
    /\ cpc[c] = "sd_put"
    /\ ntasks' = ntasks + 1
    /\ queue' = IF QueueFull(queue)
                THEN queue
                ELSE HeapPush(queue,
                         AudioTask(<<>>, SentinelPriority, now, ntasks + 1))
    /\ Goto(c, "sd_join")
    /\ UNCHANGED <<recent, stats, shutdown_event, worker_thread, cl, now,
                   budget, fixed, workers, hist>>

\* a join without timeout: it returns only when the thread has ended
ShutdownJoinWaits(c) ==
    /\ cpc[c] = "sd_join"
    /\ tstate[worker_thread] # "alive"
    /\ IF tstate[worker_thread] = "created"
       THEN Return(c, "RuntimeError")
       ELSE Return(c, "None")
    /\ UNCHANGED <<queue, recent, stats, shutdown_event, worker_thread, now,
                   budget, ntasks, fixed, workers, hist>>

\* self._worker_thread.join(timeout=timeout): it returns when the thread has
\* ended or the timeout has passed, and raises on a thread not yet started
ShutdownJoin(c) ==
    /\ cpc[c] = "sd_join"
    /\ IF tstate[worker_thread] = "created"
       THEN Return(c, "RuntimeError")
       ELSE Return(c, "None")
    /\ UNCHANGED <<queue, recent, stats, shutdown_event, worker_thread, now,
                   budget, ntasks, fixed, workers, hist>>

\* ----------------------------------------------------------- clear_queue

\* one self._queue.get_nowait() of clear_queue's loop; queue.Empty ends it
GetNowait(c) ==
    IF queue = <<>>
    THEN /\ Return(c, "None")
         /\ UNCHANGED <<queue, ncleared>>
    ELSE /\ queue' = HeapPopRest(queue)
         /\ ncleared' = ncleared + 1
         /\ Goto(c, "clearing")
         /\ cl' = [cl EXCEPT ![c] = NoLocals]

\* a clear_queue() that empties the ledger as well
ClearCallForgets(c) ==
    /\ Begin(c)
    /\ GetNowait(c)
    /\ recent' = [m \in {} |-> 0]
    /\ UNCHANGED <<stats, shutdown_event, worker_thread, now, ntasks,
                   fixed, workers, accepted, calls, signalled_calls>>

\* clear_queue() is called
ClearCall(c) ==
    /\ Begin(c)
    /\ GetNowait(c)
    /\ UNCHANGED <<recent, stats, shutdown_event, worker_thread, now, ntasks,
                   fixed, workers, accepted, calls, signalled_calls>>

\* clear_queue() goes round its loop
ClearStep(c) ==
    /\ cpc[c] = "clearing"
    /\ GetNowait(c)
    /\ UNCHANGED <<recent, stats, shutdown_event, worker_thread, now, budget,
                   ntasks, fixed, workers, accepted, calls, signalled_calls>>

\* ------------------------------------------------------------- get_stats

\* get_stats() is called
GetStatsCall(c) ==
    /\ Begin(c)
    /\ Goto(c, "get_stats")
    /\ cl' = [cl EXCEPT ![c] = NoLocals]
    /\ UNCHANGED <<queue, recent, stats, shutdown_event, worker_thread, now,
                   ntasks, fixed, workers, hist>>

\* get_stats returning the manager's own dict
GetStatsShares(c) ==
    /\ cpc[c] = "get_stats"
    /\ cpc' = [cpc EXCEPT ![c] = "idle"]
    /\ cl' = [cl EXCEPT ![c] = [NoLocals EXCEPT !.ret = "dict",
                  !.snap = [shared |-> TRUE, value |-> NoStats]]]
    /\ UNCHANGED <<queue, recent, stats, shutdown_event, worker_thread, now,
                   budget, ntasks, fixed, workers, hist>>

\* with self._stats_lock: return self._stats.copy()
GetStatsCopy(c) ==
    /\ cpc[c] = "get_stats"
    /\ ~StatsLockHeld
    /\ cpc' = [cpc EXCEPT ![c] = "idle"]
    /\ cl' = [cl EXCEPT ![c] = [NoLocals EXCEPT !.ret = "dict",
                  !.snap = [shared |-> FALSE, value |-> stats]]]
    /\ UNCHANGED <<queue, recent, stats, shutdown_event, worker_thread, now,
                   budget, ntasks, fixed, workers, hist>>

\* what the caller reads in the mapping it holds
SnapshotValue(c) ==
    IF cl[c].snap.shared THEN stats ELSE cl[c].snap.value

\* The caller writes into the mapping get_stats() gave it, as in
\* stats1["messages_queued"] = 999: into its own dict, or into the manager's
\* if that is the object it holds.
MutateSnapshot(c, counter) ==
    /\ cpc[c] = "idle"
    /\ cl[c].ret = "dict"
    /\ SnapshotValue(c)[counter] # MutatedValue
    /\ IF cl[c].snap.shared
       THEN /\ stats' = [stats EXCEPT ![counter] = MutatedValue]
            /\ cl' = cl
       ELSE /\ stats' = stats
            /\ cl' = [cl EXCEPT ![c].snap.value[counter] = MutatedValue]
    /\ UNCHANGED <<queue, recent, shutdown_event, worker_thread, cpc, now,
                   budget, ntasks, fixed, workers, hist>>

\* -------------------------------------------------------- Text2Speech.speak

\* speak(text, blocking=True) with the queue enabled is called: its first
\* statement is success = self._audio_queue.enqueue(text, priority=priority).
\* While the caller is idle with the result "True" or "False" of that
\* enqueue, it stands in speak() after line 248.
InSpeak(c) == cpc[c] = "idle" /\ cl[c].ret \in {"True", "False"}

SpeakCall(c, text, priority) ==
    /\ ~InSpeak(c)
    /\ EnqueueCall(c, text, priority)

\* if blocking and success: time.sleep(0.1); while qsize() > 0: sleep(0.1)
\* and then return success: the call returns once the queue is found empty,
\* or at once when enqueue returned False.
SpeakReturn(c) ==
    /\ InSpeak(c)
    /\ cl[c].ret = "True" => Len(queue) = 0
    /\ cl' = [cl EXCEPT ![c].ret = IF cl[c].ret = "True"
                                    THEN "spoken" ELSE "not spoken"]
    /\ UNCHANGED <<queue, recent, stats, shutdown_event, worker_thread, cpc,
                   now, budget, ntasks, fixed, workers, hist>>

\* ----------------------------------------------------------------- clock

\* time passes between two readings of time.time()
Tick ==
    /\ now < MaxTime
    /\ now' = now + 1
    /\ UNCHANGED <<queue, recent, stats, shutdown_event, worker_thread, cpc,
                   cl, budget, ntasks, fixed, workers, hist>>

\* ------------------------------------------------------- specifications

\* the steps of a caller inside enqueue()
EnqueueStep(c) ==
    \/ SkipDuplicate(c)
    \/ MakeTask(c)
    \/ PutNowait(c)
    \/ SkipFull(c)
    \/ CountQueued(c)
    \/ Track(c)

\* the steps of a caller inside start(), shutdown() and clear_queue()
ControlStep(c) ==
    \/ StartCall(c)
    \/ StartClear(c)
    \/ StartNew(c)
    \/ StartRun(c)
    \/ ShutdownCall(c)
    \/ ShutdownSet(c)
    \/ ShutdownPut(c)
    \/ ShutdownJoin(c)
    \/ ClearCall(c)
    \/ ClearStep(c)

WorkerStep(t) ==
    \/ WorkerLoop(t)
    \/ WorkerGet(t)
    \/ WorkerGetTimeout(t)
    \/ WorkerCheck(t)
    \/ WorkerPlay(t)
    \/ CallableReturns(t)
    \/ CallableRaises(t)

\* One caller thread makes the calls one after another, of every method and
\* with every input; the worker and the clock run beside it.
Init == InitWith(MaxQueueSize, MaxOps)

Next ==
    \/ \E text \in Texts, priority \in Priorities : EnqueueCall(1, text, priority)
    \/ EnqueueStep(1)
    \/ ControlStep(1)
    \/ \E t \in Threads : WorkerStep(t)
    \/ Tick

Spec == Init /\ [][Next]_vars

\* The same calls on a manager whose queue has a single place.
OneSlotInit == InitWith(OneSlot, MaxOps)

OneSlotSpec == OneSlotInit /\ [][Next]_vars

\* Two caller threads make their calls at the same time, each of every
\* method, with one text and the default priority.
RaceInit == InitWith(MaxQueueSize, RaceOps)

RaceNext ==
    \/ \E c \in Callers : EnqueueCall(c, <<"a">>, 0)
    \/ \E c \in Callers : EnqueueStep(c)
    \/ \E c \in Callers : ControlStep(c)
    \/ \E t \in Threads : WorkerStep(t)
    \/ Tick

RaceSpec == RaceInit /\ [][RaceNext]_vars

\* One caller thread starts the manager and enqueues the texts of FifoTexts
\* one after another at the default priority, as enqueue(text) does.
FifoInit == InitWith(FifoQueueSize, FifoOps)

FifoNext ==
    \/ ntasks < Len(FifoTexts) /\ EnqueueCall(1, FifoTexts[ntasks + 1], 0)
    \/ EnqueueStep(1)
    \/ StartCall(1) \/ StartClear(1) \/ StartNew(1) \/ StartRun(1)
    \/ \E t \in Threads : WorkerStep(t)
    \/ Tick

FifoSpec == FifoInit /\ [][FifoNext]_vars

\* One caller thread takes the manager through its lifecycle: start(),
\* shutdown() and enqueue of one text at the default priority, in any order.
LifeInit == InitWith(MaxQueueSize, LifeOps)

LifeNext ==
    \/ EnqueueCall(1, <<"a">>, 0)
    \/ EnqueueStep(1)
    \/ StartCall(1) \/ StartClear(1) \/ StartNew(1) \/ StartRun(1)
    \/ ShutdownCall(1) \/ ShutdownSet(1) \/ ShutdownPut(1) \/ ShutdownJoin(1)
    \/ \E t \in Threads : WorkerStep(t)
    \/ Tick

LifeSpec == LifeInit /\ [][LifeNext]_vars

\* One caller thread starts the manager, enqueues two texts at the default
\* priority and calls clear_queue(), in any order; no shutdown() is called.
ClearInit == InitWith(MaxQueueSize, ClearOps)

ClearNext ==
    \/ \E text \in {<<"a">>, <<"b">>} : EnqueueCall(1, text, 0)
    \/ EnqueueStep(1)
    \/ StartCall(1) \/ StartClear(1) \/ StartNew(1) \/ StartRun(1)
    \/ ClearCall(1) \/ ClearStep(1)
    \/ \E t \in Threads : WorkerStep(t)
    \/ Tick

ClearSpec == ClearInit /\ [][ClearNext]_vars

\* Producer threads enqueue at the same time on a started manager, as the
\* threads of test_concurrent_enqueue do; the texts are not blank.
ProducerTexts == {<<"a">>, <<"b">>}

ProducerInit == StartedWith(MaxQueueSize, ProducerOps)

ProducerNext ==
    \/ \E c \in Callers, text \in ProducerTexts : EnqueueCall(c, text, 0)
    \/ \E c \in Callers : EnqueueStep(c)
    \/ \E t \in Threads : WorkerStep(t)
    \/ Tick

ProducerSpec == ProducerInit /\ [][ProducerNext]_vars

\* One caller thread enqueues LedgerTexts distinct texts one after another
\* and then the first ones again, on a manager that was not started and
\* whose queue has room for all of them (max_queue_size is the
\* constructor's argument); the clock runs beside it.
LedgerOps == LedgerTexts + 2

\* the text of the k-th call, as f"Message {i}" in the test
LedgerText(k) == <<ToString(((k - 1) % LedgerTexts) + 1)>>

LedgerInit == InitWith(LedgerTexts, LedgerOps)

LedgerNext ==
    \/ EnqueueCall(1, LedgerText(LedgerOps - budget + 1), 0)
    \/ EnqueueStep(1)
    \/ Tick

LedgerSpec == LedgerInit /\ [][LedgerNext]_vars

\* Text2Speech with the queue enabled: its __init__ has made the manager
\* and started it.  Thread 1 calls speak(text, blocking=True); thread 2 calls
\* speak(text), which is enqueue(text) and the return of its result.
SpeakInit == StartedWith(MaxQueueSize, SpeakOps)

SpeakNext ==
    \/ \E text \in {<<"a">>, <<>>} : SpeakCall(1, text, 0)
    \/ SpeakReturn(1)
    \/ EnqueueCall(2, <<"b">>, 0)
    \/ \E c \in Callers : EnqueueStep(c)
    \/ \E t \in Threads : WorkerStep(t)
    \/ Tick

SpeakSpec == SpeakInit /\ [][SpeakNext]_vars

\* Three AudioTask objects of every priority of OrderPriorities and every
\* timestamp up to OrderMaxTime are compared with each other and with
\* themselves by `<`; no manager is used.
OrderPriorities == Priorities \cup {SentinelPriority}

OrderTriples ==
    {<<AudioTask(<<"a">>, p[1], ts[1], 1), AudioTask(<<"a">>, p[2], ts[2], 2),
       AudioTask(<<"a">>, p[3], ts[3], 3)>> :
        p \in [1..3 -> OrderPriorities], ts \in [1..3 -> 0..OrderMaxTime]}

OrderInit ==
    /\ compared \in OrderTriples
    /\ lt = <<>>
    /\ held = [th \in LockThreads |-> <<>>]
    /\ todo = [th \in LockThreads |-> <<>>]
    /\ max_queue_size = MaxQueueSize
    /\ budget = 0
    /\ queue = <<>>
    /\ recent = [m \in {} |-> 0]
    /\ stats = NoStats
    /\ shutdown_event = FALSE
    /\ worker_thread = 0
    /\ tstate = [t \in Threads |-> "none"]
    /\ wpc = [t \in Threads |-> "loop"]
    /\ wtask = [t \in Threads |-> NoTask]
    /\ cpc = [c \in Callers |-> "idle"]
    /\ cl = [c \in Callers |-> NoLocals]
    /\ now = 0
    /\ ntasks = 0
    /\ accepted = <<>>
    /\ calls = <<>>
    /\ ncleared = 0
    /\ signalled_calls = 0

\* compared[i] < compared[j], for every i and j
Compare ==
    /\ lt = <<>>
    /\ lt' = [i \in 1..3 |-> [j \in 1..3 |-> TaskLt(compared[i], compared[j])]]
    /\ UNCHANGED <<max_queue_size, queue, recent, stats, shutdown_event,
                   worker_thread, tstate, wpc, wtask, cpc, cl, now, budget,
                   ntasks, accepted, calls, ncleared, signalled_calls,
                   held, todo, compared>>

OrderSpec == OrderInit /\ [][Compare]_vars

\* On a started manager one caller thread enqueues a text at the default
\* priority or at the priority -1000, which enqueue takes as any other, and
\* calls shutdown(); start() is not called again.
PriorityInit == StartedWith(MaxQueueSize, PriorityOps)

PriorityNext ==
    \/ \E priority \in {0, SentinelPriority} : EnqueueCall(1, <<"a">>, priority)
    \/ EnqueueStep(1)
    \/ ShutdownCall(1) \/ ShutdownSet(1) \/ ShutdownPut(1) \/ ShutdownJoin(1)
    \/ \E t \in Threads : WorkerStep(t)
    \/ Tick

PrioritySpec == PriorityInit /\ [][PriorityNext]_vars

\* One caller thread makes the calls of Spec and, besides, calls get_stats()
\* and writes into the mapping it returned.
StatsInit == InitWith(MaxQueueSize, StatsOps)

StatsStep(c) ==
    \/ GetStatsCall(c)
    \/ GetStatsCopy(c)
    \/ \E counter \in DOMAIN NoStats : MutateSnapshot(c, counter)

StatsNext ==
    \/ Next
    \/ StatsStep(1)

StatsSpec == StatsInit /\ [][StatsNext]_vars

\* ------------------------------------------------ the order of locking

\* self._stats_lock, self._recent_lock and the mutex of self._queue
Locks == {"stats", "recent", "queue"}

\* an enqueue() that counts a duplicate inside _is_duplicate's lock and
\* tracks the message inside the counter's lock
EnqueueBlocksNested ==
    {<< >>,
     << <<"recent", "stats">> >>,
     << <<"recent">>, <<"queue">>, <<"stats">> >>,
     << <<"recent">>, <<"queue">>, <<"stats", "recent">> >>}

\* enqueue(): nothing for a blank text; _is_duplicate, then the count of
\* the duplicate; or _is_duplicate, put_nowait, then the count of the full
\* queue; or _is_duplicate, put_nowait, the count, then _track_message
EnqueueBlocks ==
    {<< >>,
     << <<"recent">>, <<"stats">> >>,
     << <<"recent">>, <<"queue">>, <<"stats">> >>,
     << <<"recent">>, <<"queue">>, <<"stats">>, <<"recent">> >>}

\* get_stats(): the copy under the counter's lock
GetStatsBlocks == {<< <<"stats">> >>}

\* clear_queue(): one get_nowait() for each entry and the one that raises
\* queue.Empty
ClearQueueBlocks ==
    {[i \in 1..n |-> <<"queue">>] : n \in 1..(MaxQueueSize + 1)}

\* shutdown(): nothing without a worker; else the sentinel's put_nowait,
\* the join, then get_stats() in _log_statistics
ShutdownBlocks == {<< >>, << <<"queue">>, <<"stats">> >>}

\* one round of _worker_loop: the get alone (queue.Empty, the sentinel or
\* the signal), or the get and, after the callable, the count of
\* _play_audio
WorkerBlocks == {<< <<"queue">> >>, << <<"queue">>, <<"stats">> >>}

\* the threads that hold lock l
Holders(l) ==
    {th \in LockThreads : \E i \in 1..Len(held[th]) : held[th][i] = l}

\* the thread is at a `with` or a queue operation and has yet to take a lock
Acquiring(th) ==
    todo[th] # <<>> /\ Len(held[th]) < Len(Head(todo[th]))

\* the lock it takes next
Wanted(th) == Head(todo[th])[Len(held[th]) + 1]

\* a thread begins a call of a method, or the worker a round of its loop
LockEnter(th, blocks) ==
    /\ todo[th] = <<>>
    /\ \E b \in blocks : todo' = [todo EXCEPT ![th] = b]
    /\ UNCHANGED <<max_queue_size, queue, recent, stats, shutdown_event,
                   worker_thread, tstate, wpc, wtask, cpc, cl, now, budget,
                   ntasks, hist, held, compared, lt>>

\* lock.acquire(): threading.Lock is not reentrant, the thread waits while
\* any thread, itself included, holds the lock
LockAcquire(th) ==
    /\ Acquiring(th)
    /\ Holders(Wanted(th)) = {}
    /\ held' = [held EXCEPT ![th] = Append(@, Wanted(th))]
    /\ UNCHANGED <<max_queue_size, queue, recent, stats, shutdown_event,
                   worker_thread, tstate, wpc, wtask, cpc, cl, now, budget,
                   ntasks, hist, todo, compared, lt>>

\* the body has run and the `with` blocks are left: the locks are released
LockRelease(th) ==
    /\ todo[th] # <<>>
    /\ held[th] = Head(todo[th])
    /\ held' = [held EXCEPT ![th] = <<>>]
    /\ todo' = [todo EXCEPT ![th] = Tail(@)]
    /\ UNCHANGED <<max_queue_size, queue, recent, stats, shutdown_event,
                   worker_thread, tstate, wpc, wtask, cpc, cl, now, budget,
                   ntasks, hist, compared, lt>>

\* Two caller threads call enqueue, get_stats, clear_queue and shutdown in
\* any order and at the same time, beside the worker of a started manager;
\* of each call only the locks it takes and releases are followed.
LockInit == StartedWith(MaxQueueSize, 0)

LockNext ==
    \/ \E c \in Callers : LockEnter(<<"caller", c>>, EnqueueBlocks)
    \/ \E c \in Callers : LockEnter(<<"caller", c>>, GetStatsBlocks)
    \/ \E c \in Callers : LockEnter(<<"caller", c>>, ClearQueueBlocks)
    \/ \E c \in Callers : LockEnter(<<"caller", c>>, ShutdownBlocks)
    \/ \E t \in Threads : IsAlive(t) /\ LockEnter(<<"worker", t>>, WorkerBlocks)
    \/ \E th \in LockThreads : LockAcquire(th)
    \/ \E th \in LockThreads : LockRelease(th)

LockSpec == LockInit /\ [][LockNext]_vars

\* Two producer threads call enqueue on a started manager, each with a text
\* and a priority of its own in the range 0..100; shutdown() and
\* clear_queue() are not called.
PlayInit == StartedWith(MaxQueueSize, PlayOps)

PlayNext ==
    \/ EnqueueCall(1, <<"a">>, 0)
    \/ EnqueueCall(2, <<"b">>, 5)
    \/ \E c \in Callers : EnqueueStep(c)
    \/ \E t \in Threads : WorkerStep(t)
    \/ Tick

PlaySpec == PlayInit /\ [][PlayNext]_vars

\* One thread calls speak(text, blocking=True) on a started manager while
\* another calls shutdown().
SpeakStopInit == StartedWith(MaxQueueSize, SpeakOps)

SpeakStopNext ==
    \/ SpeakCall(1, <<"a">>, 0)
    \/ EnqueueStep(1)
    \/ SpeakReturn(1)
    \/ ShutdownCall(2) \/ ShutdownSet(2) \/ ShutdownPut(2) \/ ShutdownJoin(2)
    \/ \E t \in Threads : WorkerStep(t)
    \/ Tick

SpeakStopSpec == SpeakStopInit /\ [][SpeakStopNext]_vars

\* The threads run: a worker thread that can take a step of its loop takes
\* one (the callable returns in the end), and a caller inside a method call
\* goes on with it.  No caller has to begin a call.
CallerStep(c) ==
    \/ EnqueueStep(c)
    \/ StartClear(c) \/ StartNew(c) \/ StartRun(c)
    \/ ShutdownSet(c) \/ ShutdownPut(c) \/ ShutdownJoin(c)
    \/ ClearStep(c)
    \/ GetStatsCopy(c)

Fairness ==
    /\ \A t \in Threads : WF_vars(WorkerStep(t))
    /\ \A c \in Callers : WF_vars(CallerStep(c))

LiveSpec == Spec /\ Fairness

OneSlotLiveSpec == OneSlotSpec /\ Fairness

\* The caller goes on with its call, while the worker may stay for ever
\* where it is, inside a callable that never returns.
CallerFairSpec == Spec /\ \A c \in Callers : WF_vars(CallerStep(c))

RaceLiveSpec == RaceSpec /\ Fairness

\* The playback scenario with the threads running: every invocation of the
\* callable returns or raises.
PlayLiveSpec == PlaySpec /\ Fairness

\* The same with the threads running: the callable returns in the end, the
\* callers go on with their calls, and speak() returns when its test of
\* qsize() lets it.
SpeakStopLiveSpec == SpeakStopSpec /\ Fairness /\ WF_vars(SpeakReturn(1))

\* The calls of StatsSpec, the caller going on with each, while the worker
\* may stay for ever inside a callable that never returns.
StatsFairSpec == StatsSpec /\ \A c \in Callers : WF_vars(CallerStep(c))

\* ------------------------------------------------------------ properties

\* the entries of a queue
Entries(q) == {q[i] : i \in 1..Len(q)}

\* the Task order of the specification: higher priority first, then the
\* earlier timestamp
OrdersBefore(a, b) ==
    \/ a.priority > b.priority
    \/ a.priority = b.priority /\ a.timestamp < b.timestamp

\* thread t takes a task from the queue in this step
Takes(t) == wpc[t] = "get" /\ wpc'[t] = "check"

\* the position of the task in the order of insertion
InsertedAt(id) == CHOOSE i \in 1..Len(accepted) : accepted[i].task.id = id

\* the task was enqueued while the manager was started
OnStarted(id) == accepted[InsertedAt(id)].running

\* C1: whenever a worker takes a task from the queue, it takes an entry of
\* the queue that no other entry of the queue orders before (no entry has a
\* higher priority, or the same priority and an earlier timestamp); this
\* covers the tasks inserted while an earlier task was being played and the
\* shutdown sentinel.
C1_WorkerTakesFirstInTaskOrder ==
    [][\A t \in Threads : Takes(t) =>
          /\ wtask'[t] \in Entries(queue)
          /\ Entries(queue') = Entries(queue) \ {wtask'[t]}
          /\ \A u \in Entries(queue) : ~OrdersBefore(u, wtask'[t])]_vars

\* C1 witness: a worker has taken a task out of a queue that held, and still
\* holds, a task of the same priority and a later timestamp.
C1_Witness ==
    \E t \in Threads :
        /\ IsAlive(t) /\ wpc[t] = "check"
        /\ \E u \in Entries(queue) :
               /\ u.priority = wtask[t].priority
               /\ u.timestamp > wtask[t].timestamp

C3_Claimed ==
    \A k, m \in 1..Len(calls) :
        (k < m /\ calls[k].priority = calls[m].priority)
            => InsertedAt(calls[k].id) < InsertedAt(calls[m].id)

\* C3 as amended: whenever a worker takes a task from the queue, every task
\* of the same priority and another timestamp that the caller enqueued
\* before it has the earlier timestamp and has left the queue before it;
\* tasks of equal priority and equal timestamp leave it in either order.
C3_EarlierTimestampTakenFirst ==
    [][\A t \in Threads : Takes(t) =>
          \A i \in 1..Len(accepted) :
              LET x == wtask'[t]
                  y == accepted[i].task
              IN  (/\ x.text # <<>>
                   /\ i < InsertedAt(x.id)
                   /\ y.priority = x.priority
                   /\ y.timestamp # x.timestamp)
                      => /\ y.timestamp < x.timestamp
                         /\ y \notin Entries(queue)]_vars

\* C3 witness: the callable has received, one after the other, two tasks of
\* equal priority and different timestamps, the earlier first, out of a
\* queue that two more tasks still wait in.
C3_Witness ==
    /\ stats.messages_queued = FifoQueueSize
    /\ Len(calls) = 2
    /\ calls[1].priority = calls[2].priority
    /\ calls[1].timestamp < calls[2].timestamp
    /\ Len(queue) = FifoQueueSize - 2

\* the worker threads that are alive
Alive == {t \in Threads : IsAlive(t)}

\* the worker threads that are inside the tts callable
InCallable == {t \in Threads : IsAlive(t) /\ wpc[t] = "call"}

\* C4 as claimed: at most one invocation of the tts callable is in progress
\* at any time.
C4_Claimed == Cardinality(InCallable) <= 1

\* C5 as claimed: at most one worker thread of the manager is alive at any
\* time.
C5_Claimed == Cardinality(Alive) <= 1

\* caller c takes a step of its call
Steps(c) == cpc'[c] # cpc[c] \/ cl'[c] # cl[c]

FullRejection(c) ==
    /\ (cpc[c] = "put" /\ Steps(c) /\ Len(queue) = max_queue_size)
           => /\ cpc'[c] = "skip_full"
              /\ UNCHANGED <<queue, stats, recent>>
    /\ (cpc[c] = "skip_full" /\ Steps(c))
           => /\ cpc'[c] = "idle"
              /\ cl'[c].ret = "False"
              /\ stats' = [stats EXCEPT !.messages_skipped_full = @ + 1]
              /\ UNCHANGED <<queue, recent>>

OnlySpaces(text) == \A i \in 1..Len(text) : text[i] = " "

\* C8: a call of enqueue with an empty text or a text of spaces returns
\* False at once and leaves the queue, the ledger, the counters and every
\* other part of the manager as they were.
C8_BlankTextRejected ==
    [][\A c \in Callers, text \in Texts, priority \in Priorities :
          (OnlySpaces(text) /\ EnqueueCall(c, text, priority))
              => /\ cpc'[c] = "idle"
                 /\ cl'[c].ret = "False"
                 /\ UNCHANGED <<queue, recent, stats, shutdown_event,
                                worker_thread, ntasks, accepted>>]_vars

\* C8 witness: a call has returned False with every counter still zero, as
\* only a blank text makes it, after another text was refused nowhere.
C8_Witness ==
    /\ \E c \in Callers : cpc[c] = "idle" /\ cl[c].ret = "False"
    /\ stats.messages_skipped_duplicate = 0
    /\ stats.messages_skipped_full = 0
    /\ stats.messages_queued = 1
    /\ Len(queue) = 1

\* C9: when a caller whose last call was an accepted enqueue of a text calls
\* enqueue with the same text less than duplicate_timeout after the ledger
\* entry was written, the call takes the duplicate branch with queue,
\* counters and ledger as they were; the duplicate branch adds one to
\* messages_skipped_duplicate, changes no other counter and not the queue,
\* and returns False.
C9_DuplicateWithinTimeoutRejected ==
    [][\A c \in Callers :
          /\ \A text \in Texts \cup Entries(FifoTexts), priority \in Priorities :
                 (/\ EnqueueCall(c, text, priority)
                  /\ ~OnlySpaces(text)
                  /\ cl[c].ret = "True" /\ cl[c].text = text
                  /\ now - cl[c].tracked < DuplicateTimeout)
                     => /\ cpc'[c] = "skip_dup"
                        /\ UNCHANGED <<queue, recent, stats>>
          /\ (cpc[c] = "skip_dup" /\ Steps(c))
                 => /\ cpc'[c] = "idle"
                    /\ cl'[c].ret = "False"
                    /\ stats' = [stats EXCEPT !.messages_skipped_duplicate = @ + 1]
                    /\ UNCHANGED <<queue, recent>>]_vars

\* C9 witness: after two calls, the first is counted in messages_queued and
\* the second, of the same text, has returned False and is counted in
\* messages_skipped_duplicate.
C9_Witness ==
    /\ budget = MaxOps - 2
    /\ stats.messages_queued = 1
    /\ stats.messages_skipped_duplicate = 1
    /\ Len(accepted) = 1
    /\ \E c \in Callers : cpc[c] = "idle" /\ cl[c].ret = "False"

\* C10 as claimed: of the enqueue calls of one text, made by any threads, no
\* two whose tasks were created less than duplicate_timeout apart are both
\* accepted.
C10_Claimed ==
    \A i, j \in 1..Len(accepted) :
        (i < j /\ accepted[i].task.text = accepted[j].task.text)
            => \/ accepted[j].task.timestamp - accepted[i].task.timestamp
                      >= DuplicateTimeout
               \/ accepted[i].task.timestamp - accepted[j].task.timestamp
                      >= DuplicateTimeout

\* caller c's last call was an enqueue of the text that was accepted, and the
\* ledger still holds the time written for it
LastAccepted(c, text) ==
    /\ cl[c].ret = "True" /\ cl[c].text = text
    /\ text \in DOMAIN recent /\ recent[text] = cl[c].tracked

\* caller c calls enqueue with a text that is not blank
Enqueues(c) == cpc[c] = "idle" /\ cpc'[c] \in {"mk_task", "skip_dup"}

\* C11: when a caller enqueues again the text of its last accepted call
\* and at least duplicate_timeout has passed since the ledger entry was
\* written, the call does not take the duplicate branch; if the queue is
\* not full at its put_nowait the task is inserted, messages_queued grows
\* by one and the call returns True.  No call takes the duplicate branch
\* unless the ledger holds the text with an age below duplicate_timeout.
C11_AcceptedAgainAfterTimeout ==
    [][\A c \in Callers :
          /\ (/\ Enqueues(c)
              /\ LastAccepted(c, cl'[c].text)
              /\ now - cl[c].tracked >= DuplicateTimeout)
                 => cpc'[c] = "mk_task"
          /\ (Enqueues(c) /\ cpc'[c] = "skip_dup")
                 => /\ cl'[c].text \in DOMAIN recent
                    /\ now - recent[cl'[c].text] < DuplicateTimeout
          /\ (cpc[c] = "mk_task" /\ Steps(c)) => cpc'[c] = "put"
          /\ (cpc[c] = "put" /\ Steps(c) /\ Len(queue) < max_queue_size)
                 => /\ cpc'[c] = "count_queued"
                    /\ cl[c].task \in Entries(queue')
          /\ (cpc[c] = "count_queued" /\ Steps(c))
                 => /\ cpc'[c] = "track"
                    /\ stats'.messages_queued = stats.messages_queued + 1
          /\ (cpc[c] = "track" /\ Steps(c))
                 => cpc'[c] = "idle" /\ cl'[c].ret = "True"]_vars

\* C11 witness: one text was accepted twice, the second time exactly
\* duplicate_timeout after the first, and the second call has returned True.
C11_Witness ==
    /\ Len(accepted) = 2
    /\ accepted[1].task.text = accepted[2].task.text
    /\ stats.messages_queued = 2
    /\ stats.messages_skipped_duplicate = 0
    /\ \E c \in Callers :
           /\ cpc[c] = "idle" /\ cl[c].ret = "True"
           /\ cl[c].tracked - accepted[1].task.timestamp = DuplicateTimeout

\* thread t leaves the tts callable in this step
LeavesCallable(t) == IsAlive(t) /\ wpc[t] = "call" /\ wpc'[t] # "call"

\* C12: a callable invocation ends by adding one either to errors or to
\* messages_played and changing no other counter, and it leaves the worker
\* alive at the head of its loop, from where it can go on at once, to the
\* next get unless shutdown was signalled; errors changes in no other
\* step.  So errors and messages_played together count the invocations
\* that have ended, and while messages_played is 0 errors is the number of
\* tasks processed.
C12_CallableErrorCounted ==
    [][/\ \A t \in Threads : LeavesCallable(t) =>
              /\ \/ stats' = [stats EXCEPT !.errors = @ + 1]
                 \/ stats' = [stats EXCEPT !.messages_played = @ + 1]
              /\ tstate'[t] = "alive" /\ wpc'[t] = "loop"
              /\ queue' = queue
       /\ \A t \in Threads : (IsAlive(t) /\ wpc[t] = "loop") =>
              /\ ENABLED WorkerLoop(t)
              /\ (~shutdown_event /\ wpc'[t] # "loop") => wpc'[t] = "get"
       /\ stats'.errors # stats.errors => \E t \in Threads : LeavesCallable(t)
       /\ stats'.errors + stats'.messages_played + Cardinality(InCallable')
              = Len(calls')]_vars

\* C12 witness: the callable has raised for two tasks, one after the other,
\* and played none; the worker is alive.
C12_Witness ==
    /\ stats.errors = 2 /\ stats.messages_played = 0
    /\ Len(calls) = 2
    /\ IsRunning

\* shutdown() has set the signal while thread t is the running worker
ShutdownSignalled(t) ==
    /\ \E c \in Callers : cpc[c] = "sd_put"
    /\ worker_thread = t /\ IsAlive(t)

\* C13: after shutdown() has set the signal on a running manager, the
\* callable returning in the end, the worker exits, whether the queue is
\* empty, holds the sentinel or is full without it, and when it has exited
\* is_running() is False and the shutdown signal is set.
C13_WorkerExitsAfterShutdown ==
    \A t \in Threads :
        ShutdownSignalled(t)
            ~> (tstate[t] = "dead" /\ ~IsRunning /\ shutdown_event)

\* C13 witness: shutdown() found the queue full and could not insert the
\* sentinel it created; the worker has exited all the same, leaving the
\* queue full, and shutdown() has returned.
C13_Witness ==
    /\ worker_thread # 0 /\ tstate[worker_thread] = "dead"
    /\ shutdown_event /\ ~IsRunning
    /\ Len(queue) = max_queue_size
    /\ \A u \in Entries(queue) : u.priority # SentinelPriority
    /\ ntasks = Len(accepted) + 1
    /\ \A c \in Callers : cpc[c] = "idle"

\* thread t takes a step of its loop
WorkerSteps(t) ==
    tstate'[t] # tstate[t] \/ wpc'[t] # wpc[t] \/ wtask'[t] # wtask[t]

\* C14: a worker that finds the shutdown signal set at the head of its
\* loop, or finds it set or holds the sentinel after a get, ends there:
\* the queue keeps its entries, nothing is passed to the callable and no
\* counter changes, and the task it holds is dropped.  A thread that has
\* ended takes no further step, and the callable receives a task only from
\* a live worker that has passed the test after its get.
C14_ShutdownDoesNotDrain ==
    [][/\ \A t \in Threads :
              (/\ IsAlive(t) /\ WorkerSteps(t)
               /\ \/ wpc[t] = "loop" /\ shutdown_event
                  \/ /\ wpc[t] = "check"
                     /\ shutdown_event \/ wtask[t].priority = SentinelPriority)
                  => /\ tstate'[t] = "dead"
                     /\ wtask'[t] = NoTask
                     /\ UNCHANGED <<queue, calls, stats>>
       /\ \A t \in Threads : tstate[t] = "dead" => ~WorkerSteps(t)
       /\ calls' # calls =>
              \E t \in Threads :
                  /\ IsAlive(t) /\ wpc[t] = "play"
                  /\ calls' = Append(calls, wtask[t])
                  /\ wtask[t].priority # SentinelPriority]_vars

\* C14 witness: the worker has ended after shutdown(); a task that enqueue
\* inserted is neither in the queue nor was it passed to the callable nor
\* removed by clear_queue(), and the queue still holds an entry.
C14_Witness ==
    /\ worker_thread # 0 /\ tstate[worker_thread] = "dead"
    /\ shutdown_event
    /\ ncleared = 0
    /\ queue # <<>>
    /\ \E i \in 1..Len(accepted) :
           /\ accepted[i].task \notin Entries(queue)
           /\ accepted[i].task \notin Entries(calls)

\* caller c is inside shutdown()
InShutdown(c) == cpc[c] \in {"sd_set", "sd_put", "sd_join"}

\* C15: a shutdown() call that goes on returns, though the worker takes no
\* further step; and no step of shutdown() changes a worker thread: when
\* it returns while the worker is inside the callable, the worker is still
\* alive and inside the callable, is_running() is True and the signal is
\* set.
C15_ShutdownReturns ==
    /\ \A c \in Callers : InShutdown(c) ~> cpc[c] = "idle"
    /\ [][\A c \in Callers : (InShutdown(c) /\ Steps(c)) =>
              /\ UNCHANGED <<tstate, wpc, wtask, calls, stats>>
              /\ (/\ cpc'[c] = "idle"
                  /\ \E t \in Threads : IsAlive(t) /\ wpc[t] = "call")
                     => /\ cl'[c].ret = "None"
                        /\ IsRunning'
                        /\ wpc'[worker_thread] = "call"
                        /\ shutdown_event']_vars

\* C15 witness: shutdown() has returned, the signal is set, and the worker
\* is alive inside the callable it entered before.
C15_Witness ==
    /\ \A c \in Callers : cpc[c] = "idle"
    /\ \E c \in Callers : cl[c].ret = "None"
    /\ shutdown_event
    /\ IsRunning /\ wpc[worker_thread] = "call"
    /\ stats.messages_played = 0 /\ stats.errors = 0

\* C16: shutdown() called on a manager that was never started returns None
\* at once and changes nothing; every other shutdown() call, the second
\* after a completed shutdown among them, goes through its steps, a full
\* queue or an ended worker notwithstanding, and returns None.
C16_ShutdownNeverRaises ==
    [][\A c \in Callers :
          /\ (ShutdownCall(c) /\ worker_thread = 0)
                 => /\ cpc'[c] = "idle" /\ cl'[c].ret = "None"
                    /\ UNCHANGED <<queue, recent, stats, shutdown_event,
                                   worker_thread, tstate, ntasks>>
          /\ (InShutdown(c) /\ Steps(c))
                 => /\ cpc'[c] = "idle" <=> cpc[c] = "sd_join"
                    /\ cpc'[c] = "idle" => cl'[c].ret = "None"]_vars

\* C16 witness: two shutdown() calls have returned None, the second after
\* the worker had ended; each created its sentinel.
C16_Witness ==
    /\ \A c \in Callers : cpc[c] = "idle"
    /\ \E c \in Callers : cl[c].ret = "None"
    /\ worker_thread # 0 /\ tstate[worker_thread] = "dead"
    /\ ntasks = 2 /\ accepted = <<>>
    /\ budget = MaxOps - 3

\* C17: a start() call that finds the worker thread alive returns at once:
\* the worker handle and every thread are as before, no thread is created,
\* and the queue, the ledger, the counters and the shutdown signal are
\* unchanged.
C17_StartWhileRunningIsNoOp ==
    [][\A c \in Callers : (StartCall(c) /\ IsRunning) =>
          /\ cpc'[c] = "idle" /\ cl'[c].ret = "None"
          /\ UNCHANGED <<worker_thread, tstate, wpc, wtask, queue, recent,
                         stats, shutdown_event, ntasks>>]_vars

\* C17 witness: after start(), an accepted enqueue and one more call that
\* returned None, one thread was created; it is alive and inside the
\* callable, and the signal is clear.
C17_Witness ==
    /\ budget = MaxOps - 3
    /\ \A c \in Callers : cpc[c] = "idle"
    /\ \E c \in Callers : cl[c].ret = "None"
    /\ Cardinality(Created) = 1
    /\ IsRunning /\ wpc[worker_thread] = "call"
    /\ ~shutdown_event
    /\ stats.messages_queued = 1

\* caller c is inside start()
InStart(c) == cpc[c] \in {"start_clear", "start_new", "start_run"}

\* start() returns to caller c in this step, from a call made when the
\* manager was not RUNNING: it had no live worker, or its worker was still
\* inside the callable after a shutdown() that timed out
StartReturns(c) ==
    \/ cpc[c] = "start_run" /\ cpc'[c] = "idle"
    \/ /\ StartCall(c) /\ cpc'[c] = "idle"
       /\ shutdown_event /\ wpc[worker_thread] = "call"

\* C18 as claimed: when start() returns from a call made in a state other
\* than RUNNING, the shutdown signal is clear and exactly one worker is
\* alive, the manager's; and from then on, while no start() or shutdown()
\* is under way and the signal is clear, the manager is running.
C18_Claimed ==
    [][/\ \A c \in Callers : StartReturns(c) =>
              /\ ~shutdown_event'
              /\ IsRunning'
              /\ Cardinality(Alive') = 1
       /\ (/\ worker_thread' # 0 /\ ~shutdown_event'
           /\ \A c \in Callers : ~InStart(c)' /\ ~InShutdown(c)' /\ cpc'[c] # "sd_set")
              => IsRunning']_vars

\* C19 as claimed: a worker that start() created after an earlier worker
\* had ended stays alive until shutdown() sets the signal, and no accepted
\* task is left in the queue of a manager that was started again, is not
\* shut down and has no live worker.
C19_Claimed ==
    [][/\ \A t \in Threads :
              (/\ IsAlive(t) /\ tstate'[t] = "dead"
               /\ \E u \in Threads : tstate[u] = "dead")
                  => shutdown_event
       /\ (/\ \E u \in Threads : tstate'[u] = "dead"
           /\ ~shutdown_event'
           /\ \A c \in Callers : cpc'[c] = "idle")
              => \/ IsRunning'
                 \/ \A u \in Entries(queue') : u.priority = SentinelPriority]_vars

\* caller c takes a step of clear_queue(): the call, or a round of its loop
Clears(c) ==
    \/ cpc[c] = "clearing" /\ Steps(c)
    \/ ClearCall(c)

\* C20 as claimed: a step of clear_queue() changes no worker thread, no
\* counter and not what the callable received; the call returns only from
\* an empty queue, at once and with nothing changed if it finds it empty;
\* and no worker takes, to pass it to the callable, a task out of the queue
\* that a clear_queue() call is emptying.
C20_Claimed ==
    [][/\ \A c \in Callers : Clears(c) =>
              /\ UNCHANGED <<tstate, wpc, wtask, calls, stats, recent,
                             shutdown_event, worker_thread>>
              /\ cpc'[c] = "idle" <=> queue = <<>>
              /\ queue = <<>> => queue' = queue /\ cl'[c].ret = "None"
              /\ queue # <<>> => Len(queue') = Len(queue) - 1
       /\ \A t \in Threads : Takes(t) =>
              \A c \in Callers : cpc[c] # "clearing"]_vars

\* caller c writes into the mapping get_stats() returned to it
Mutates(c) == \E counter \in DOMAIN NoStats : MutateSnapshot(c, counter)

\* C21: get_stats() changes no counter and returns a mapping equal to the
\* counters as they are at that step, an object of the caller's own: when
\* the caller writes into it, what the caller reads in it changes and the
\* manager's counters do not, so that no later get_stats() returns the
\* value written.
C21_GetStatsReturnsCopy ==
    [][\A c \in Callers :
          /\ (cpc[c] = "get_stats" /\ cpc'[c] = "idle") =>
                 /\ stats' = stats
                 /\ cl'[c].ret = "dict"
                 /\ SnapshotValue(c)' = stats
          /\ Mutates(c) =>
                 /\ stats' = stats
                 /\ SnapshotValue(c)' # SnapshotValue(c)
                 /\ SnapshotValue(c)' # stats'
          /\ \A counter \in DOMAIN NoStats : stats'[counter] # MutatedValue]_vars

\* the caller has written 999 over a counter of the mapping it was given,
\* which the manager counts as 1
C21_Witness ==
    /\ cpc[1] = "idle"
    /\ cl[1].ret = "dict"
    /\ SnapshotValue(1).messages_queued = MutatedValue
    /\ stats.messages_queued = 1

\* C22: no step of any method or of the worker lowers any of the five
\* counters.
C22_CountersNeverDecrease ==
    [][\A counter \in DOMAIN NoStats : stats'[counter] >= stats[counter]]_vars

\* a message was counted, clear_queue() has removed it, and start() has
\* returned after that
C22_Witness ==
    /\ stats.messages_queued = 1
    /\ ncleared = 1
    /\ IsRunning
    /\ cpc[1] = "idle"

\* the positions of enqueue at which the call has counted nothing yet
Uncounted == {"skip_dup", "mk_task", "put", "skip_full", "count_queued"}

\* the three counters of enqueue, added up
EnqueueCounted ==
    stats.messages_queued + stats.messages_skipped_duplicate
        + stats.messages_skipped_full

\* C23: with producers enqueueing non-blank texts at the same time, the
\* three counters of enqueue add up, at every moment, to the number of calls
\* begun less the calls that have not counted yet, and messages_queued to
\* the number of insertions less the calls about to count theirs: every
\* call counts once, in one counter.  A call returns True exactly when it
\* comes from counting in messages_queued.  Once all calls have completed
\* the counters add up to the number of calls.
C23_NoLostOrDoubleCount ==
    [][/\ EnqueueCounted' + Cardinality({c \in Callers : cpc'[c] \in Uncounted})
              = ProducerOps - budget'
       /\ stats'.messages_queued
              + Cardinality({c \in Callers : cpc'[c] = "count_queued"})
              = Len(accepted')
       /\ \A c \in Callers :
              (cpc[c] # "idle" /\ cpc'[c] = "idle") =>
                  /\ cl'[c].ret = "True" <=> cpc[c] = "track"
                  /\ cl'[c].ret \in {"True", "False"}
       /\ \A c \in Callers :
              cpc'[c] = "track" /\ cpc[c] # "track" =>
                  /\ cpc[c] = "count_queued"
                  /\ stats'.messages_queued = stats.messages_queued + 1
       /\ (\A c \in Callers : cpc'[c] = "idle") =>
              EnqueueCounted' = ProducerOps - budget']_vars

\* all calls have completed, two of them, of the same text, went through the
\* duplicate test together and were both counted in messages_queued, and
\* one was counted as a duplicate
C23_Witness ==
    /\ \A c \in Callers : cpc[c] = "idle" /\ cl[c].ret \in {"True", "False"}
    /\ budget = 0
    /\ stats.messages_queued >= 2
    /\ stats.messages_skipped_duplicate >= 1
    /\ accepted[1].task.timestamp = accepted[2].task.timestamp
    /\ accepted[1].task.text = accepted[2].task.text

\* C24 as claimed: the recent-message ledger never holds more than 100
\* texts.
C24_Claimed == Cardinality(DOMAIN recent) <= RecentLimit

\* caller c is inside enqueue(), get_stats() or clear_queue()
InProducerCall(c) ==
    cpc[c] \in Uncounted \cup {"track", "get_stats", "clearing"}

\* a worker thread is inside the tts callable
Playing == InCallable # {}

\* C25: a caller that is inside enqueue(), get_stats() or clear_queue() while
\* a worker is inside the callable completes its call, though the callable
\* never returns; and each step the caller takes meanwhile leaves the worker
\* where it is, inside the callable.
C25_ProducersNeverBlockOnPlayback ==
    /\ \A c \in Callers : (InProducerCall(c) /\ Playing) ~> cpc[c] = "idle"
    /\ [][\A c \in Callers : (InProducerCall(c) /\ Playing /\ Steps(c)) =>
              UNCHANGED <<tstate, wpc, wtask, calls>>]_vars

\* a playback is in progress: the message was counted as queued and not as
\* played, and get_stats() has returned these counters to the caller
C25_Witness ==
    /\ Playing
    /\ Len(calls) = 1
    /\ stats.messages_played = 0 /\ stats.errors = 0
    /\ cpc[1] = "idle" /\ cl[1].ret = "dict"
    /\ SnapshotValue(1).messages_queued = 1
    /\ SnapshotValue(1).messages_played = 0

\* the text has a character that is not a space
HasContent(text) == \E i \in 1..Len(text) : text[i] # " "

\* C26: every task enqueue inserted has a text with a character that is not
\* a space, and every task handed to the callable is one of them: the
\* sentinel, whose text is empty, is never handed to it, whatever worker
\* takes it.
C26_CallableNeverGetsBlankText ==
    /\ \A i \in 1..Len(accepted) : HasContent(accepted[i].task.text)
    /\ \A i \in 1..Len(calls) :
           /\ HasContent(calls[i].text)
           /\ calls[i].priority # SentinelPriority
           /\ \E j \in 1..Len(accepted) : accepted[j].task = calls[i]

\* the worker of a second start() has taken the sentinel that the shutdown()
\* before it left in the queue, and has ended without calling the callable
C26_Witness ==
    /\ tstate[1] = "dead" /\ tstate[2] = "dead"
    /\ ~shutdown_event
    /\ ntasks = 1
    /\ queue = <<>>
    /\ calls = <<>>

\* the task of the last text that thread 1 had accepted
Spoken ==
    LET mine == {i \in 1..Len(accepted) : accepted[i].task.text = <<"a">>}
    IN  accepted[CHOOSE i \in mine : \A j \in mine : j <= i].task

\* the callable was called with the task and has returned or raised
Completed(task) ==
    /\ \E i \in 1..Len(calls) : calls[i].id = task.id
    /\ \A t \in Threads : IsAlive(t) => wtask[t].id # task.id

\* C27 as claimed: when speak(text, blocking=True) has returned True, the
\* callable has been called with the task of that text and is no longer
\* inside that call.
C27_Claimed == cl[1].ret = "spoken" => Completed(Spoken)

\* C28: the ledger changes in no step but the last one of an accepted
\* enqueue, which returns True and writes the clock reading of that moment
\* for its text, touching no other entry (entries may only leave, by the
\* pruning); every step of a call that returns False, and every step of any
\* other method or of the worker, leaves the ledger as it is.
C28_LedgerChangesOnlyOnInsertion ==
    [][/\ recent' # recent =>
              \E c \in Callers : cpc[c] = "track" /\ cpc'[c] = "idle"
       /\ \A c \in Callers : (cpc[c] = "track" /\ cpc'[c] = "idle") =>
              /\ cl'[c].ret = "True"
              /\ cl[c].text \in DOMAIN recent'
              /\ recent'[cl[c].text] = now
              /\ \A m \in DOMAIN recent' \ {cl[c].text} :
                     m \in DOMAIN recent /\ recent'[m] = recent[m]
       /\ \A c \in Callers :
              (cpc[c] # "idle" /\ cpc'[c] = "idle" /\ cl'[c].ret = "False") =>
                  recent' = recent]_vars

\* both texts were accepted at clock reading 0; an enqueue made at reading 1,
\* no longer a duplicate, was rejected because the queue was full, and the
\* ledger still holds the readings of the insertions
C28_Witness ==
    /\ cpc[1] = "idle" /\ cl[1].ret = "False"
    /\ stats.messages_skipped_full = 1
    /\ stats.messages_skipped_duplicate = 0
    /\ now = 1
    /\ DOMAIN recent = {<<"a">>, <<"b">>}
    /\ \A m \in DOMAIN recent : recent[m] = 0

\* no invocation has raised, no enqueue call is under way and every accepted
\* task has been through the callable
AllPlayed ==
    /\ stats.errors = 0
    /\ \A c \in Callers : cpc[c] = "idle"
    /\ \A i \in 1..Len(accepted) : Completed(accepted[i].task)

\* C29: the invocations of the callable made so far are as many as
\* messages_played and errors together, plus the invocations in progress;
\* a worker that leaves the callable adds one to exactly one of the two
\* counters and nothing to the other.  When no invocation has raised, no
\* enqueue call is under way and every accepted task has been through the
\* callable, messages_played equals messages_queued.
C29_EveryInvocationCountedOnce ==
    [][/\ stats'.messages_played + stats'.errors
              + Cardinality({t \in Threads : wpc'[t] = "call"}) = Len(calls')
       /\ \A t \in Threads : (wpc[t] = "call" /\ wpc'[t] # "call") =>
              \/ /\ stats'.messages_played = stats.messages_played + 1
                 /\ stats'.errors = stats.errors
              \/ /\ stats'.messages_played = stats.messages_played
                 /\ stats'.errors = stats.errors + 1
       /\ (AllPlayed => stats.messages_played = stats.messages_queued)']_vars

\* two messages were accepted and both were played, none raised
C29_Witness ==
    /\ AllPlayed
    /\ Len(accepted) = 2
    /\ stats.messages_played = 2
    /\ stats.messages_queued = 2

\* neither of the two compared tasks is less than the other
Incomparable(i, j) == ~lt[i][j] /\ ~lt[j][i]

\* C30: for tasks A, B, C of any priorities and timestamps, A < B is true
\* exactly when A has the higher priority, or the same priority and the
\* earlier timestamp; `<` is irreflexive, asymmetric and transitive, being
\* incomparable is transitive too, and two tasks of equal priority and
\* equal timestamp compare false both ways.
C30_LtIsStrictWeakOrdering ==
    lt # <<>> =>
        /\ \A i, j \in 1..3 :
               /\ lt[i][j] <=>
                      \/ compared[i].priority > compared[j].priority
                      \/ /\ compared[i].priority = compared[j].priority
                         /\ compared[i].timestamp < compared[j].timestamp
               /\ ~lt[i][i]
               /\ lt[i][j] => ~lt[j][i]
               /\ (/\ compared[i].priority = compared[j].priority
                   /\ compared[i].timestamp = compared[j].timestamp)
                      => Incomparable(i, j)
        /\ \A i, j, k \in 1..3 :
               /\ (lt[i][j] /\ lt[j][k]) => lt[i][k]
               /\ (Incomparable(i, j) /\ Incomparable(j, k)) => Incomparable(i, k)

\* the comparisons were made on two distinct tasks of equal priority and
\* timestamp and a third of lower priority and earlier timestamp, which
\* both come before
C30_Witness ==
    /\ lt # <<>>
    /\ compared[1].priority = compared[2].priority
    /\ compared[1].timestamp = compared[2].timestamp
    /\ compared[3].priority < compared[1].priority
    /\ compared[3].timestamp < compared[1].timestamp
    /\ Incomparable(1, 2)
    /\ lt[1][3] /\ lt[2][3]

\* C31: a step of clear_queue() leaves the five counters, the ledger, the
\* worker handle and the shutdown signal as they are, so that every text is
\* a duplicate after the step exactly if it was one before; and an enqueue
\* of a text that the ledger holds for less than duplicate_timeout goes to
\* the duplicate rejection, also when clear_queue() has removed its task
\* from the queue.
C31_ClearQueueChangesOnlyQueue ==
    [][\A c \in Callers :
          /\ Clears(c) =>
                 /\ UNCHANGED <<stats, recent, shutdown_event, worker_thread>>
                 /\ \A text \in Texts : IsDuplicate(text)' <=> IsDuplicate(text)
          /\ (/\ Enqueues(c)
              /\ cl'[c].text \in DOMAIN recent
              /\ now - recent[cl'[c].text] < DuplicateTimeout)
                 => cpc'[c] = "skip_dup"]_vars

\* the text was accepted, clear_queue() has removed its task before any
\* worker took one, and the enqueue of the same text made after that was
\* rejected as a duplicate
C31_Witness ==
    /\ cpc[1] = "idle" /\ cl[1].ret = "False"
    /\ ncleared = 1
    /\ Len(accepted) = 1
    /\ calls = <<>> /\ queue = <<>>
    /\ \A t \in Threads : wtask[t] = NoTask
    /\ stats.messages_queued = 1
    /\ stats.messages_skipped_duplicate = 1

\* C32 as claimed: a worker thread ends only when shutdown() has set the
\* signal, whatever the priority of the tasks that enqueue inserted.
C32_Claimed ==
    [][\A t \in Threads :
          (IsAlive(t) /\ tstate'[t] = "dead") => shutdown_event]_vars

\* C33 as claimed: when shutdown() has returned and the worker has ended, no
\* sentinel is in the queue.
C33_Claimed ==
    (/\ worker_thread # 0 /\ tstate[worker_thread] = "dead"
     /\ shutdown_event
     /\ \A c \in Callers : cpc[c] = "idle")
        => \A u \in Entries(queue) : u.priority # SentinelPriority

\* C34 as claimed: messages_played and errors together never exceed
\* messages_queued.
C34_Claimed ==
    stats.messages_played + stats.errors <= stats.messages_queued

\* what the callable was handed so far: each task once, and only tasks that
\* enqueue inserted
CalledOnceEach ==
    /\ \A i, j \in 1..Len(calls) : calls[i].id = calls[j].id => i = j
    /\ \A i \in 1..Len(calls) :
           \E j \in 1..Len(accepted) : accepted[j].task = calls[i]

\* C35: the callable is handed only tasks that enqueue inserted, and each of
\* them at most once; a task is inserted by no step but the put_nowait of an
\* enqueue call, and the call that inserted a task goes on to count it and
\* to return True, whatever the other threads do.
C35_OnlyAcceptedTasksOnce ==
    [][/\ CalledOnceEach'
       /\ accepted' # accepted =>
              \E c \in Callers :
                  /\ cpc[c] = "put" /\ cpc'[c] = "count_queued"
                  /\ accepted' = Append(accepted, [task |-> cl[c].task,
                                                    running |-> IsRunning])
       /\ \A c \in Callers :
              (cpc[c] \in {"count_queued", "track"} /\ Steps(c)) =>
                  \/ cpc[c] = "count_queued" /\ cpc'[c] = "track"
                  \/ /\ cpc[c] = "track" /\ cpc'[c] = "idle"
                     /\ cl'[c].ret = "True"]_vars

\* two accepted tasks of the same text were both handed to the callable,
\* once each, and the enqueue calls have returned True
C35_Witness ==
    /\ cpc[1] = "idle" /\ cl[1].ret = "True"
    /\ Len(accepted) = 2
    /\ Len(calls) = 2
    /\ calls[1].text = calls[2].text
    /\ calls[1].id # calls[2].id
    /\ CalledOnceEach

\* C36: from the moment shutdown() sets the signal until a start() clears
\* it, at most one invocation of the callable begins, and it is for a task
\* the worker had taken and checked before the signal was set; an
\* invocation begins only in the manager's worker thread while it is alive,
\* so none begins once shutdown() has returned with the worker stopped.
C36_AtMostOneCallAfterSignal ==
    [][/\ signalled_calls' <= 1
       /\ \A t \in Threads :
              (wpc[t] # "play" /\ wpc'[t] = "play") => ~shutdown_event
       /\ calls' # calls => IsRunning /\ wpc'[worker_thread] = "call"
       /\ (/\ worker_thread # 0 /\ tstate[worker_thread] = "dead"
           /\ \A c \in Callers : ~InStart(c)) => calls' = calls]_vars

\* shutdown() has returned and the worker has stopped, after one invocation
\* that began with the signal set
C36_Witness ==
    /\ shutdown_event
    /\ signalled_calls = 1
    /\ cpc[1] = "idle" /\ cl[1].ret = "None"
    /\ worker_thread # 0 /\ tstate[worker_thread] = "dead"

\* the thread waits for a lock that some thread holds
Waiting(th) == Acquiring(th) /\ Holders(Wanted(th)) # {}

\* a set of threads each of which waits for a lock that one of them holds
Deadlocked ==
    \E S \in SUBSET LockThreads :
        /\ S # {}
        /\ \A th \in S : Waiting(th) /\ Holders(Wanted(th)) \subseteq S

\* C37: no thread holds two of the manager's locks at the same time, each
\* lock is held by one thread at most, and no set of threads wait for each
\* other's locks, in any interleaving of enqueue, get_stats, clear_queue,
\* shutdown and the worker.
C37_NoTwoLocksNoDeadlock ==
    /\ \A th \in LockThreads : Len(held[th]) <= 1
    /\ \A l \in Locks : Cardinality(Holders(l)) <= 1
    /\ ~Deadlocked

\* the worker holds the counter's lock after the callable, one caller holds
\* the queue's mutex, and the other caller waits for the counter's lock
C37_Witness ==
    /\ held[<<"worker", 1>>] = <<"stats">>
    /\ held[<<"caller", 1>>] = <<"queue">>
    /\ Waiting(<<"caller", 2>>)
    /\ Wanted(<<"caller", 2>>) = "stats"

\* the i-th accepted task has been handed to the callable
Handed(i) ==
    /\ i <= Len(accepted)
    /\ \E j \in 1..Len(calls) : calls[j] = accepted[i].task

\* C38: on a started manager on which neither shutdown() nor clear_queue()
\* is called, with every invocation of the callable ending and finitely
\* many enqueue calls of priorities in 0..100, every accepted task is
\* eventually handed to the callable, and from some moment on the queue
\* stays empty.
C38_AcceptedEventuallyPlayed ==
    /\ \A i \in 1..PlayOps : (Len(accepted) >= i) ~> Handed(i)
    /\ <>[](queue = <<>>)

\* two tasks were waiting in the queue together, the one of higher priority
\* inserted last, and both have been handed to the callable
C38_Witness ==
    /\ Len(accepted) = 2
    /\ accepted[2].task.priority > accepted[1].task.priority
    /\ Len(calls) = 2
    /\ calls[1] = accepted[2].task
    /\ calls[2] = accepted[1].task
    /\ queue = <<>>

\* a speak call of the caller has begun and has not returned
SpeakPending(c) == cpc[c] # "idle" \/ InSpeak(c)

\* C39 as claimed: every call of speak(text, blocking=True) returns, also
\* when the worker has stopped after a shutdown() while entries remain in
\* the queue.
C39_Claimed == SpeakPending(1) ~> ~SpeakPending(1)

====
